---- MODULE Spec2Model ----
(***************************************************************************)
(* Voice Sentinel backend: the risk engine, the real-time risk monitor and *)
(* the WebSocket streaming handler of server.js (src/unnamed/part_003),    *)
(* with the analysis engine of voiceEngine.js (src/unnamed/part_001).      *)
(*                                                                         *)
(* Numbers.  JavaScript numbers are modelled as exact fixed-point          *)
(* integers.  A risk score is held in units of 1e-5 point (ScoreUnit per   *)
(* point), which makes every term of calculateScore exact for feature      *)
(* values on the grids used here: rms/zcr/std features in thousandths,     *)
(* spectral centroid and rolloff in hundredths, tempo, pitch variance and  *)
(* fraud risk in whole units.  Timestamps of history entries are never     *)
(* read by the code and are left out.                                      *)
(***************************************************************************)
EXTENDS Integers, Sequences, FiniteSets, TLC

VARIABLES
    recentScores,   \* riskMonitor.recentScores: the scores of the one shared monitor
    pushed,         \* history variable: every score handed to checkAlert, with its caller
    lastAlert,      \* the alert object returned by the latest checkAlert
    conn,           \* per connection: "none" before wss 'connection', then "open"
    analysisCount,  \* per connection: the closure variable analysisCount
    received,       \* history variable: per connection, the client messages
                    \* the handler has run for, in arrival order
    outbox,         \* per connection: the messages passed to ws.send, in order
    httpDone,       \* number of HTTP analysis requests served
    arg,            \* input of the pure function under check
    res             \* its result

vars == <<recentScores, pushed, lastAlert, conn, analysisCount, received,
          outbox, httpDone, arg, res>>

monitorVars == <<recentScores, pushed, lastAlert>>
serverVars  == <<conn, analysisCount, received, outbox, httpDone>>
pureVars    == <<arg, res>>

-----------------------------------------------------------------------------
(* Bounds of the model *)

\* calls of checkAlert in the monitor specification
MaxCalls == 11

\* client messages handled, over all WebSocket connections
MaxMsgs == 3

\* HTTP analysis requests served
MaxHttp == 1

-----------------------------------------------------------------------------
(* Arithmetic helpers *)

ScoreUnit == 10 * 10 * 10 * 10 * 10

Min(a, b) == IF a < b THEN a ELSE b
Max(a, b) == IF a > b THEN a ELSE b
Abs(x) == IF x < 0 THEN -x ELSE x

\* a / b rounded to the nearest integer, halves upwards (a >= 0, b > 0)
RoundDiv(a, b) == (2 * a + b) \div (2 * b)

RECURSIVE SumSeq(_)
SumSeq(s) == IF s = <<>> THEN 0 ELSE Head(s) + SumSeq(Tail(s))

\* Array.prototype.slice(-n) for n >= 1: the last n elements, all when shorter
SliceLast(s, n) == IF Len(s) <= n THEN s ELSE SubSeq(s, Len(s) - n + 1, Len(s))

\* Array.prototype.slice(-10, -5)
SlicePrev(s) ==
    LET hi == Len(s) - 5
        lo == Max(Len(s) - 10, 0) + 1
    IN  IF hi < lo THEN <<>> ELSE SubSeq(s, lo, hi)

\* the IEEE not-a-number, kept apart from every feature value; every
\* comparison with it is false and arithmetic on it gives it back
NaN == -(2 ^ 30)

IsNaN(x) == x = NaN
Less(a, b) == ~IsNaN(a) /\ ~IsNaN(b) /\ a < b
Minus(a, b) == IF IsNaN(a) \/ IsNaN(b) THEN NaN ELSE a - b
AbsOf(x) == IF IsNaN(x) THEN NaN ELSE Abs(x)

\* an absent value is the empty tuple, a present value v is <<v>>
NoValue == <<>>
Some(v) == <<v>>
Val(r) == r[1]

-----------------------------------------------------------------------------
(* AGENT 4: RealTimeRiskMonitor *)

\* a threshold placed on the CRITICAL boundary
thresholdAtCritical == 85 * ScoreUnit

\* this.threshold = 70
threshold == 70 * ScoreUnit

\* the trend with a missing previous window averaged as 0
calculateTrendZeroDefault(hist) ==
    IF Len(hist) < 2 THEN "STABLE"
    ELSE LET recent   == SliceLast(hist, 5)
             previous == SlicePrev(hist)
             nr       == Len(recent)
             np       == Len(previous)
             avgN     == IF np > 0 THEN SumSeq(recent) * np ELSE SumSeq(recent)
             prevN    == IF np > 0 THEN SumSeq(previous) * nr ELSE 0
             five     == IF np > 0 THEN 5 * ScoreUnit * nr * np ELSE 5 * ScoreUnit * nr
         IN  IF avgN > prevN + five THEN "INCREASING"
             ELSE IF avgN < prevN - five THEN "DECREASING"
             ELSE "STABLE"

\* the trend with a difference of exactly 5 counted as a change
calculateTrendInclusive(hist) ==
    IF Len(hist) < 2 THEN "STABLE"
    ELSE LET recent   == SliceLast(hist, 5)
             previous == SlicePrev(hist)
             nr       == Len(recent)
             np       == Len(previous)
             avgN     == IF np > 0 THEN SumSeq(recent) * np ELSE SumSeq(recent)
             prevN    == IF np > 0 THEN SumSeq(previous) * nr ELSE SumSeq(recent)
             five     == IF np > 0 THEN 5 * ScoreUnit * nr * np ELSE 5 * ScoreUnit * nr
         IN  IF avgN >= prevN + five THEN "INCREASING"
             ELSE IF avgN <= prevN - five THEN "DECREASING"
             ELSE "STABLE"

\* calculateTrend(): avg of slice(-5) against avg of slice(-10, -5), or
\* against itself when that slice is empty
calculateTrend(hist) ==
    IF Len(hist) < 2 THEN "STABLE"
    ELSE LET recent   == SliceLast(hist, 5)
             previous == SlicePrev(hist)
             nr       == Len(recent)
             np       == Len(previous)
             \* avg and prevAvg over the common denominator nr * np
             avgN     == IF np > 0 THEN SumSeq(recent) * np ELSE SumSeq(recent)
             prevN    == IF np > 0 THEN SumSeq(previous) * nr ELSE SumSeq(recent)
             five     == IF np > 0 THEN 5 * ScoreUnit * nr * np ELSE 5 * ScoreUnit * nr
         IN  IF avgN > prevN + five THEN "INCREASING"
             ELSE IF avgN < prevN - five THEN "DECREASING"
             ELSE "STABLE"

\* the history without the eviction of the oldest entry
checkAlertPushUnbounded(hist, score) == Append(hist, score)

\* an eviction that drops the newest entry instead of the oldest
checkAlertPushDropNewest(hist, score) ==
    LET h == Append(hist, score)
    IN  IF Len(h) > 10 THEN SubSeq(h, 1, 10) ELSE h

\* this.recentScores.push(...); if (length > 10) shift()
checkAlertPush(hist, score) ==
    LET h == Append(hist, score)
    IN  IF Len(h) > 10 THEN Tail(h) ELSE h

checkAlert(hist, score) ==
    LET h == checkAlertPush(hist, score)
    IN  [hist  |-> h,
         alert |-> [isAlert  |-> score > threshold,
                    severity |-> IF score > 85 * ScoreUnit THEN "CRITICAL"
                                 ELSE IF score > 70 * ScoreUnit THEN "HIGH"
                                 ELSE "MEDIUM",
                    trend    |-> calculateTrend(h)]]

-----------------------------------------------------------------------------
(* The monitor on its own: checkAlert called by any caller with any score *)

MonitorScores == {10 * ScoreUnit, 35 * ScoreUnit, 80 * ScoreUnit}

IdleServer ==
    /\ conn = [s \in {} |-> "none"]
    /\ analysisCount = [s \in {} |-> 0]
    /\ received = [s \in {} |-> <<>>]
    /\ outbox = [s \in {} |-> <<>>]
    /\ httpDone = 0

IdlePure == arg = NoValue /\ res = NoValue

IdleMonitor == recentScores = <<>> /\ pushed = <<>> /\ lastAlert = NoValue

InitMonitor ==
    /\ recentScores = <<>>
    /\ pushed = <<>>
    /\ lastAlert = NoValue
    /\ IdleServer
    /\ IdlePure

CheckAlertCall(score) ==
    /\ Len(pushed) < MaxCalls
    /\ LET r == checkAlert(recentScores, score)
       IN  /\ recentScores' = r.hist
           /\ lastAlert' = Some(r.alert)
    /\ pushed' = Append(pushed, [who |-> "direct", score |-> score])
    /\ UNCHANGED <<serverVars, pureVars>>

NextMonitor == \E score \in MonitorScores : CheckAlertCall(score)

SpecMonitor == InitMonitor /\ [][NextMonitor]_vars

\* the scores handed to checkAlert so far, in call order
PushedScores == [i \in 1..Len(pushed) |-> pushed[i].score]

\* C2: after any sequence of checkAlert calls the history holds at most 10
\* entries.
HistoryAtMostTen == Len(recentScores) <= 10

\* more than ten calls were made, so the eleventh entry had to be evicted
HistoryFullAfterEviction == Len(pushed) > 10 /\ Len(recentScores) = 10

\* C3: after n calls on a fresh monitor the history is exactly the last
\* min(n, 10) scores, in arrival order (the oldest one is the one evicted).
HistoryIsLastTenInOrder == recentScores = SliceLast(PushedScores, 10)

\* the eleventh call evicted the first score, which differed from the second
OldestEvicted ==
    /\ Len(pushed) = 11
    /\ pushed[1].score # pushed[2].score
    /\ recentScores[1] = pushed[2].score

\* five times the mean of the last five entries minus five times the mean of
\* the five before them, for a history of ten
TrendDiffTimesFive ==
    (recentScores[6] + recentScores[7] + recentScores[8] + recentScores[9]
       + recentScores[10])
    - (recentScores[1] + recentScores[2] + recentScores[3] + recentScores[4]
       + recentScores[5])

\* C13 as stated: with ten entries the trend is INCREASING whenever the mean
\* of the last five is at least 5 higher than the mean of the five before
\* them, DECREASING whenever it is at least 5 lower, STABLE otherwise.
TrendAtTenInclusive ==
    (Len(recentScores) = 10 /\ lastAlert # NoValue) =>
        Val(lastAlert).trend =
            IF TrendDiffTimesFive >= 25 * ScoreUnit THEN "INCREASING"
            ELSE IF TrendDiffTimesFive <= -25 * ScoreUnit THEN "DECREASING"
            ELSE "STABLE"

\* C13 amended: with ten entries the trend is INCREASING exactly when the
\* mean of the last five is more than 5 higher than the mean of the five
\* before them, DECREASING exactly when it is more than 5 lower, and STABLE
\* otherwise, a difference of exactly 5 included; five entries of 10
\* followed by five of 80 give INCREASING.
TrendAtTenStrict ==
    (Len(recentScores) = 10 /\ lastAlert # NoValue) =>
        /\ Val(lastAlert).trend =
              IF TrendDiffTimesFive > 25 * ScoreUnit THEN "INCREASING"
              ELSE IF TrendDiffTimesFive < -25 * ScoreUnit THEN "DECREASING"
              ELSE "STABLE"
        /\ recentScores = [i \in 1..10 |-> IF i <= 5 THEN 10 * ScoreUnit
                                                     ELSE 80 * ScoreUnit]
              => Val(lastAlert).trend = "INCREASING"

\* ten entries whose two means differ by exactly 5, reported as STABLE
TrendStableAtExactlyFive ==
    /\ Len(recentScores) = 10
    /\ lastAlert # NoValue
    /\ TrendDiffTimesFive = 25 * ScoreUnit
    /\ Val(lastAlert).trend = "STABLE"

\* C28: the trend is STABLE whenever the history holds 5 or fewer scores,
\* whatever their values; INCREASING or DECREASING is first reported with
\* at least 6 scores in the history.
TrendStableUpToFive ==
    (lastAlert # NoValue /\ Len(recentScores) <= 5) =>
        Val(lastAlert).trend = "STABLE"

\* one low score followed by five high ones: the sixth call is the first
\* whose trend is not STABLE
SixthScoreFirstTrend ==
    /\ Len(pushed) = 6
    /\ recentScores = <<10 * ScoreUnit, 80 * ScoreUnit, 80 * ScoreUnit,
                        80 * ScoreUnit, 80 * ScoreUnit, 80 * ScoreUnit>>
    /\ lastAlert # NoValue
    /\ Val(lastAlert).trend = "INCREASING"

-----------------------------------------------------------------------------
(* One checkAlert call on a monitor with a given history: scores on and    *)
(* next to the two boundaries, histories empty, short and full.            *)

AlertScores ==
    {0, 40 * ScoreUnit, 70 * ScoreUnit - 1, 70 * ScoreUnit, 70 * ScoreUnit + 1,
     80 * ScoreUnit, 85 * ScoreUnit - 1, 85 * ScoreUnit, 85 * ScoreUnit + 1,
     100 * ScoreUnit}

AlertHistories ==
    {<<>>}
    \cup {<<a>> : a \in {10 * ScoreUnit, 90 * ScoreUnit}}
    \cup {<<a, b>> : a \in {10 * ScoreUnit, 90 * ScoreUnit},
                     b \in {10 * ScoreUnit, 90 * ScoreUnit}}
    \cup {[i \in 1..10 |-> a] : a \in {10 * ScoreUnit, 90 * ScoreUnit}}

InitAlert ==
    /\ IdleMonitor
    /\ IdleServer
    /\ arg \in [hist : AlertHistories, score : AlertScores]
    /\ res = NoValue

ApplyCheckAlert ==
    /\ res = NoValue
    /\ res' = Some(checkAlert(arg.hist, arg.score))
    /\ UNCHANGED <<arg, monitorVars, serverVars>>

NextAlert == ApplyCheckAlert

SpecAlert == InitAlert /\ [][NextAlert]_vars

\* C14: checkAlert classifies the score it was given: isAlert exactly when
\* score > 70; severity CRITICAL exactly when score > 85, HIGH exactly when
\* 70 < score <= 85, MEDIUM otherwise; isAlert iff severity is HIGH or
\* CRITICAL; and the classification is the same on every history.
AlertClassifiesCurrentScore ==
    res # NoValue =>
        LET a == Val(res).alert
        IN  /\ a.isAlert <=> arg.score > 70 * ScoreUnit
            /\ a.severity = "CRITICAL" <=> arg.score > 85 * ScoreUnit
            /\ a.severity = "HIGH" <=>
                  (arg.score > 70 * ScoreUnit /\ arg.score <= 85 * ScoreUnit)
            /\ a.severity = "MEDIUM" <=> arg.score <= 70 * ScoreUnit
            /\ a.isAlert <=> a.severity \in {"HIGH", "CRITICAL"}
            /\ \A h \in AlertHistories :
                  /\ checkAlert(h, arg.score).alert.isAlert = a.isAlert
                  /\ checkAlert(h, arg.score).alert.severity = a.severity

\* a score exactly on the threshold pushed onto a history full of alerting
\* scores: no alert, MEDIUM
NoAlertOnThreshold ==
    /\ res # NoValue
    /\ arg.score = 70 * ScoreUnit
    /\ Len(arg.hist) = 10
    /\ arg.hist[10] = 90 * ScoreUnit
    /\ ~Val(res).alert.isAlert
    /\ Val(res).alert.severity = "MEDIUM"

-----------------------------------------------------------------------------
(* AGENT 2: VoiceSentinelRiskEngine.calculateRisk (heuristic-input mode)   *)
(* inputs: fillerCount, latency (ms), pitchVar, wpm, noiseDb in whole      *)
(* units; pauseStd and zcr in thousandths; intent in IntentRisk.           *)

IntentRisk == {"low", "medium", "high"}

\* the multipliers with medium and high exchanged
intentMultsSwapped == [i \in IntentRisk |->
                  IF i = "low" THEN 10 ELSE IF i = "medium" THEN 18 ELSE 14]

\* this.intentMults, in tenths
intentMults == [i \in IntentRisk |->
                  IF i = "low" THEN 10 ELSE IF i = "medium" THEN 14 ELSE 18]

cogScoreOf(inputs) ==
    LET filler == IF inputs.fillerCount = 0 THEN 40
                  ELSE IF inputs.fillerCount < 2 THEN 15
                  ELSE IF inputs.fillerCount > 4 THEN 20 ELSE 0
        pause  == IF inputs.pauseStd < 80 THEN 30
                  ELSE IF inputs.pauseStd > 300 THEN 10 ELSE 0
        lat    == IF inputs.latency > 500 THEN 20 ELSE 0
    IN  Min(filler + pause + lat, 100)

behScoreOf(inputs) ==
    LET pitch == IF inputs.pitchVar > 600 THEN 45
                 ELSE IF inputs.pitchVar > 400 THEN 25
                 ELSE IF inputs.pitchVar > 200 THEN 10 ELSE 0
        rate  == IF inputs.wpm > 180 THEN 35
                 ELSE IF inputs.wpm > 160 THEN 15
                 ELSE IF inputs.wpm < 100 THEN 15 ELSE 0
    IN  Min(pitch + rate, 100)

envScoreOf(inputs) ==
    LET noise == IF inputs.noiseDb < -65 THEN 40
                 ELSE IF inputs.noiseDb < -55 THEN 15
                 ELSE IF inputs.noiseDb > -45 THEN 20 ELSE 0
        z     == IF inputs.zcr < 30 THEN 25
                 ELSE IF inputs.zcr > 80 THEN 15 ELSE 0
    IN  Min(noise + z, 100)

\* rawRisk = cog * 0.30 + beh * 0.40 + env * 0.30, in score units
rawRiskOf(cog, beh, env) == (30 * cog + 40 * beh + 30 * env) * (ScoreUnit \div 100)

\* the aggregation without the cap at 100
finalScoreUncapped(rawRisk, intent) == (rawRisk * intentMults[intent]) \div 10

\* finalScore = Math.min(rawRisk * intentMults[intent], 100.0)
finalScoreOf(rawRisk, intent) ==
    Min((rawRisk * intentMults[intent]) \div 10, 100 * ScoreUnit)

\* confidence as a fraction in thousandths: 0.90, -0.15, -0.10, floor 0.60
confidenceOf(inputs) ==
    LET c0 == 900
        c1 == IF inputs.noiseDb < -50 THEN c0 - 150 ELSE c0
        c2 == IF inputs.pitchVar > 500 THEN c1 - 100 ELSE c1
    IN  Max(c2, 600)

\* the verdict with the thresholds taken inclusively
actionOfInclusive(finalScore) ==
    IF finalScore <= 30 * ScoreUnit THEN "FAST_LANE"
    ELSE IF finalScore <= 70 * ScoreUnit THEN "COGNITIVE_TEST"
    ELSE "BLOCK_IMMEDIATE"

\* Verdict: BLOCK_IMMEDIATE unless finalScore < 30 or finalScore < 70
actionOf(finalScore) ==
    IF finalScore < 30 * ScoreUnit THEN "FAST_LANE"
    ELSE IF finalScore < 70 * ScoreUnit THEN "COGNITIVE_TEST"
    ELSE "BLOCK_IMMEDIATE"

\* score: rounded to two decimals, in score units; confidence: percent with
\* one decimal, in tenths of a percent; components: points
calculateRisk(inputs) ==
    LET cogScore   == cogScoreOf(inputs)
        behScore   == behScoreOf(inputs)
        envScore   == envScoreOf(inputs)
        finalScore == finalScoreOf(rawRiskOf(cogScore, behScore, envScore), inputs.intent)
    IN  [score      |-> RoundDiv(finalScore, ScoreUnit \div 100) * (ScoreUnit \div 100),
         confidence |-> RoundDiv(confidenceOf(inputs) * 1000, 1000),
         action     |-> actionOf(finalScore),
         components |-> [cognitive     |-> cogScore,
                         behavioral    |-> behScore,
                         environmental |-> envScore]]

\* largest filler count tried
MaxFillers == 5

RiskInputs ==
    [fillerCount : 0..MaxFillers,
     pauseStd    : {50, 80, 300, 350},
     latency     : {500, 501},
     pitchVar    : {200, 201, 401, 500, 501, 601},
     wpm         : {99, 100, 161, 181},
     noiseDb     : {-66, -60, -52, -50, -40},
     zcr         : {20, 50, 90},
     intent      : IntentRisk]

InitRisk ==
    /\ IdleMonitor
    /\ IdleServer
    /\ arg \in RiskInputs
    /\ res = NoValue

ApplyCalculateRisk ==
    /\ res = NoValue
    /\ res' = Some(calculateRisk(arg))
    /\ UNCHANGED <<arg, monitorVars, serverVars>>

NextRisk == ApplyCalculateRisk

SpecRisk == InitRisk /\ [][NextRisk]_vars

\* C9: for every combination of heuristic inputs and every intent, the
\* score and the three component scores lie in [0, 100] and the confidence
\* in [60, 90] percent.
RiskOutputsInRange ==
    res # NoValue =>
        /\ Val(res).score >= 0 /\ Val(res).score <= 100 * ScoreUnit
        /\ \A c \in {"cognitive", "behavioral", "environmental"} :
              Val(res).components[c] >= 0 /\ Val(res).components[c] <= 100
        /\ Val(res).confidence >= 600 /\ Val(res).confidence <= 900

\* inputs whose weighted sum times the multiplier exceeds 100: the cap acts,
\* and both confidence deductions apply
RiskCapReached ==
    /\ res # NoValue
    /\ finalScoreUncapped(rawRiskOf(cogScoreOf(arg), behScoreOf(arg), envScoreOf(arg)),
                          arg.intent) > 100 * ScoreUnit
    /\ Val(res).score = 100 * ScoreUnit
    /\ Val(res).confidence = 650

IntentRank(i) == IF i = "low" THEN 1 ELSE IF i = "medium" THEN 2 ELSE 3

ActionRank(a) ==
    IF a = "FAST_LANE" THEN 1 ELSE IF a = "COGNITIVE_TEST" THEN 2 ELSE 3

\* C12: with the other inputs fixed, a higher intent never gives a lower
\* score nor a less suspicious verdict, and the component scores and the
\* confidence are the same for every intent.
IntentMonotone ==
    res # NoValue =>
        \A i \in IntentRisk :
            LET other == calculateRisk([arg EXCEPT !.intent = i])
            IN  /\ other.components = Val(res).components
                /\ other.confidence = Val(res).confidence
                /\ IntentRank(i) >= IntentRank(arg.intent) =>
                      /\ other.score >= Val(res).score
                      /\ ActionRank(other.action) >= ActionRank(Val(res).action)

\* a low-intent result in the lowest tier whose high-intent counterpart has a
\* strictly greater score and a more suspicious verdict
IntentRaisesTier ==
    /\ res # NoValue
    /\ arg.intent = "low"
    /\ Val(res).action = "FAST_LANE"
    /\ calculateRisk([arg EXCEPT !.intent = "high"]).score > Val(res).score
    /\ calculateRisk([arg EXCEPT !.intent = "high"]).action = "COGNITIVE_TEST"

-----------------------------------------------------------------------------
(* VoiceAnalysisEngine (voiceEngine.js): scoring of an extracted feature   *)
(* vector.  A feature vector is a record with duration (ms), rms_mean,     *)
(* rms_std, rms_max, zcr_mean, mfcc_std, pitch_stability (thousandths),    *)
(* spec_centroid_mean, spec_rolloff_mean (hundredths) and tempo.           *)

\* a property read of an object: undefined (here the falsy default) when
\* the object has no such key
Field(obj, key, default) == IF key \in DOMAIN obj THEN obj[key] ELSE default

\* JavaScript's a < x < b: (a < x) is coerced to 1 or 0 and compared with b
ChainedLess(a, x, b, unit) == (IF a < x THEN unit ELSE 0) < b

analyzeQuality(features) ==
    LET p1 == IF features.rms_mean > 50 THEN 20 ELSE 0
        p2 == IF ChainedLess(150, features.zcr_mean, 500, 1000) THEN 20 ELSE 0
        p3 == IF features.spec_rolloff_mean > 30 THEN 20 ELSE 0
        p4 == IF features.pitch_stability > 500 THEN 20 ELSE 0
        p5 == IF ChainedLess(1000, features.duration, 30000, 1000) THEN 20 ELSE 0
    IN  [quality_score    |-> p1 + p2 + p3 + p4 + p5,
         has_voice        |-> features.rms_mean > 50,
         natural_speech   |-> 150 < features.zcr_mean /\ features.zcr_mean < 500,
         good_frequency   |-> features.spec_rolloff_mean > 30,
         consistent_pitch |-> features.pitch_stability > 500,
         natural_duration |-> 1000 < features.duration /\ features.duration < 30000]

detectArtifacts(features) ==
    LET artifacts ==
            [robotic_voice    |-> features.rms_std < 10,
             heavy_background |-> features.zcr_mean > 600,
             clipping         |-> features.rms_max > 900,
             fake_audio       |-> Less(features.mfcc_std, 50)
                                  \/ Less(50000, features.mfcc_std),
             echo_present     |-> Less(30, AbsOf(Minus(features.spec_centroid_mean,
                                                       features.spec_rolloff_mean)))]
        artifactCount == Cardinality({k \in DOMAIN artifacts : artifacts[k]})
    IN  [artifacts      |-> artifacts,
         artifact_count |-> artifactCount,
         artifact_score |-> Min(100, artifactCount * 25)]

\* the fraud risk without the feature-consistency penalty
calculateFraudRiskNoConsistency(features) ==
    LET quality   == analyzeQuality(features)
        artifacts == detectArtifacts(features)
        r1 == 50 + (IF quality.quality_score < 40 THEN 15 ELSE 0)
        r2 == r1 + artifacts.artifact_score
        r4 == r2 + (IF features.tempo > 300 THEN 15 ELSE 0)
    IN  Min(100, Max(0, r4))

\* calculateFraudRisk(features)
calculateFraudRisk(features) ==
    LET quality   == analyzeQuality(features)
        artifacts == detectArtifacts(features)
        r1 == 50 + (IF quality.quality_score < 40 THEN 15 ELSE 0)
        r2 == r1 + artifacts.artifact_score
        r3 == r2 + (IF features.rms_std < 10 THEN 20 ELSE 0)
        r4 == r3 + (IF features.tempo > 300 THEN 15 ELSE 0)
    IN  Min(100, Max(0, r4))

getRecommendation(riskScore) ==
    IF riskScore > 75 THEN "BLOCK_IMMEDIATE"
    ELSE IF riskScore > 50 THEN "CHALLENGE_REQUIRED"
    ELSE "ALLOW"

\* the analysis object: isNull when processAudio returns null
NullAnalysis == [isNull |-> TRUE]

\* processAudio on a chunk whose decoding and feature extraction gave
\* chunk.features, or gave nothing (parseWAV or extractFeatures returned
\* null, or threw)
processAudio(chunk) ==
    IF chunk.features = NoValue THEN NullAnalysis
    ELSE LET features  == Val(chunk.features)
             fraudRisk == calculateFraudRisk(features)
         IN  [isNull         |-> FALSE,
              hasFeatures    |-> TRUE,
              features       |-> [duration           |-> features.duration,
                                  rms_mean           |-> features.rms_mean,
                                  zcr_mean           |-> features.zcr_mean,
                                  spec_centroid_mean |-> features.spec_centroid_mean,
                                  spec_rolloff_mean  |-> features.spec_rolloff_mean,
                                  tempo              |-> features.tempo],
              quality        |-> analyzeQuality(features),
              hasArtifacts   |-> TRUE,
              artifacts      |-> detectArtifacts(features),
              fraud_risk     |-> fraudRisk,
              recommendation |-> getRecommendation(fraudRisk)]

-----------------------------------------------------------------------------
(* VoiceSentinelRiskEngine.calculateScore (feature-vector mode)            *)

\* the sum of the penalties before the clamp, in score units
scoreSum(analysis) ==
    LET f           == analysis.features
        rmsRisk     == Min(20 * ScoreUnit, Abs(f.rms_mean - 150) * (ScoreUnit \div 10))
        zcrDev      == Abs(f.zcr_mean - 50)
        zcrRisk     == IF zcrDev > 100 THEN 20 * ScoreUnit
                       ELSE IF zcrDev > 50 THEN 10 * ScoreUnit ELSE 0
        specRisk    == IF Less(f.spec_centroid_mean, 80000) THEN 15 * ScoreUnit
                       ELSE IF Less(350000, f.spec_centroid_mean) THEN 10 * ScoreUnit
                       ELSE 0
        rolloffDev  == Abs(f.spec_rolloff_mean - 350000)
        rolloffRisk == Min(10 * ScoreUnit, rolloffDev * 2)
        tempoRisk   == IF f.tempo < 80 THEN 15 * ScoreUnit
                       ELSE IF f.tempo > 200 THEN 15 * ScoreUnit
                       ELSE IF f.tempo < 100 \/ f.tempo > 180 THEN 8 * ScoreUnit ELSE 0
        pitchVar    == Field(f, "pitch_var", 0)
        pitchRisk   == IF pitchVar # 0
                       THEN Min(15 * ScoreUnit, pitchVar * (ScoreUnit \div 40)) ELSE 0
        art         == analysis.artifacts.artifacts
        artRisk     == IF analysis.hasArtifacts
                       THEN (IF Field(art, "robotic_voice", FALSE) THEN 20 * ScoreUnit ELSE 0)
                          + (IF Field(art, "fake_audio", FALSE) THEN 25 * ScoreUnit ELSE 0)
                          + (IF Field(art, "clipping", FALSE) THEN 15 * ScoreUnit ELSE 0)
                          + (IF Field(art, "background_noise", FALSE) THEN 10 * ScoreUnit ELSE 0)
                          + (IF Field(art, "echo", FALSE) THEN 8 * ScoreUnit ELSE 0)
                       ELSE 0
        fraudRisk   == IF analysis.fraud_risk # 0 /\ analysis.fraud_risk < 100
                       THEN analysis.fraud_risk * (ScoreUnit \div 10) ELSE 0
    IN  rmsRisk + zcrRisk + specRisk + rolloffRisk + tempoRisk + pitchRisk
        + artRisk + fraudRisk

\* a clamp that forgets the upper bound
capScoreFloorOnly(score) == Max(0, score)

\* score = Math.min(100, Math.max(0, score))
capScore(score) == Min(100 * ScoreUnit, Max(0, score))

\* Math.random() * 30, for a draw rnd of Math.random() in thousandths
randomFallback(rnd) == rnd * 30 * (ScoreUnit \div 1000)

\* a score that takes the random draw in on every path
calculateScoreRandomised(analysis, rnd) ==
    IF analysis.isNull \/ ~analysis.hasFeatures
    THEN randomFallback(rnd)
    ELSE capScore(scoreSum(analysis) + randomFallback(rnd))

\* calculateScore(analysis); rnd is the draw of Math.random()
calculateScore(analysis, rnd) ==
    IF analysis.isNull \/ ~analysis.hasFeatures
    THEN randomFallback(rnd)
    ELSE capScore(scoreSum(analysis))

\* draws of Math.random(), in thousandths of [0, 1)
RandomDraws == {0, 500, 999}

ScoreArtifacts ==
    [robotic_voice : BOOLEAN, fake_audio : BOOLEAN, clipping : BOOLEAN,
     background_noise : BOOLEAN, echo : BOOLEAN]

ScoreFeatures ==
    [rms_mean           : {0, 150, 1000},
     zcr_mean           : {50, 101, 700},
     spec_centroid_mean : {0, 200000, 350100},
     spec_rolloff_mean  : {0, 350000, 1200000},
     tempo              : {79, 99, 150, 201},
     pitch_var          : {0, 400, 1000}]

FraudRisks == {-1000, 0, 65, 100}

ScoreAnalyses ==
    [isNull : {FALSE}, hasFeatures : {TRUE}, features : ScoreFeatures,
     hasArtifacts : {TRUE}, artifacts : [artifacts : ScoreArtifacts],
     fraud_risk : FraudRisks]
    \cup
    [isNull : {FALSE}, hasFeatures : {TRUE}, features : ScoreFeatures,
     hasArtifacts : {FALSE}, artifacts : {[artifacts |-> [none |-> FALSE]]},
     fraud_risk : FraudRisks]

\* analysis is null, or has no features
MissingAnalyses == {NullAnalysis, [isNull |-> FALSE, hasFeatures |-> FALSE]}

InitScore ==
    /\ IdleMonitor
    /\ IdleServer
    /\ arg \in [analysis : ScoreAnalyses, rnd : {0}]
               \cup [analysis : MissingAnalyses, rnd : RandomDraws]
    /\ res = NoValue

ApplyCalculateScore ==
    /\ res = NoValue
    /\ res' = Some(calculateScore(arg.analysis, arg.rnd))
    /\ UNCHANGED <<arg, monitorVars, serverVars>>

NextScore == ApplyCalculateScore

SpecScore == InitScore /\ [][NextScore]_vars

\* C10: calculateScore returns a value in [0, 100] for every analysis
\* object: the sum of the penalties is clamped, and the fallback for a
\* missing analysis or missing features lies in [0, 100] too.
ScoreInRange == res # NoValue => Val(res) >= 0 /\ Val(res) <= 100 * ScoreUnit

\* an analysis whose penalties add up to more than 100 was scored 100
ScoreClampReached ==
    /\ res # NoValue
    /\ ~arg.analysis.isNull
    /\ arg.analysis.hasFeatures
    /\ scoreSum(arg.analysis) > 100 * ScoreUnit
    /\ Val(res) = 100 * ScoreUnit

-----------------------------------------------------------------------------
(* AGENT 1: ChallengeGenerator.generate; rnd is the draw of Math.random()  *)

\* the tiers with the thresholds taken inclusively
generateInclusive(riskScore, rnd) ==
    LET pick == (rnd * 2) \div 1000
    IN  IF riskScore >= 70 * ScoreUnit
        THEN [type |-> "CRITICAL_CONTEXT", script |-> <<"critical", pick>>]
        ELSE IF riskScore >= 40 * ScoreUnit
        THEN [type |-> "LINGUISTIC_TRAP", script |-> <<"hard", pick>>]
        ELSE [type |-> "PREFERENCE", script |-> <<"medium", pick>>]

\* generate(riskScore)
generate(riskScore, rnd) ==
    LET pick == (rnd * 2) \div 1000
    IN  IF riskScore > 70 * ScoreUnit
        THEN [type |-> "CRITICAL_CONTEXT", script |-> <<"critical", pick>>]
        ELSE IF riskScore > 40 * ScoreUnit
        THEN [type |-> "LINGUISTIC_TRAP", script |-> <<"hard", pick>>]
        ELSE [type |-> "PREFERENCE", script |-> <<"medium", pick>>]

-----------------------------------------------------------------------------
(* AudioProcessor.analyzeAudioFile: the RiskInputs of an uploaded file,    *)
(* from the hash seed (0..99) of its bytes and Date.now() % 50             *)

analyzeAudioFile(seed, timeMod) ==
    [latency     |-> 200 + seed * 4,
     pauseStd    |-> 50 + (seed * 35) \div 10,
     fillerCount |-> (seed * 5) \div 10,
     wpm         |-> 80 + (seed * 15) \div 10 + (timeMod * 40) \div 100,
     pitchVar    |-> 100 + seed * 9,
     noiseDb     |-> -70 + (seed * 2) \div 10,
     zcr         |-> 20 + (seed * 8) \div 10,
     intent      |-> "medium"]

-----------------------------------------------------------------------------
(* The server: the shared riskMonitor, the WebSocket connections and the   *)
(* HTTP analysis endpoints                                                 *)

Sessions == {"A", "B"}
SessionOrder == [s \in Sessions |-> IF s = "A" THEN 1 ELSE 2]

\* x || d
OrDefault(x, d) == IF x = 0 THEN d ELSE x

\* feature vectors of decodable chunks: an ordinary voice and a chunk that
\* trips every artifact check
OrdinaryVoice ==
    [duration |-> 500, rms_mean |-> 150, rms_std |-> 50, rms_max |-> 400,
     zcr_mean |-> 50, spec_centroid_mean |-> 20, spec_rolloff_mean |-> 35,
     mfcc_std |-> 200, tempo |-> 150, pitch_stability |-> 667]

SyntheticVoice ==
    [duration |-> 500, rms_mean |-> 950, rms_std |-> 5, rms_max |-> 990,
     zcr_mean |-> 700, spec_centroid_mean |-> 10, spec_rolloff_mean |-> 50,
     mfcc_std |-> 10, tempo |-> 600, pitch_stability |-> 500]

\* the audio of an audio_chunk message, by what decoding and feature
\* extraction make of it.  No features: parseWAV or extractFeatures gave
\* null (an empty sample list, or new DataView(buffer) throwing inside
\* parseWAV, as it does for a buffer that is not an ArrayBuffer).
Chunks == {[features |-> NoValue],
           [features |-> Some(OrdinaryVoice)],
           [features |-> Some(SyntheticVoice)]}

\* the draws of Math.random() in one run of the handler: latency,
\* fillerCount, challenge script
HandlerDraws == {<<0, 0, 0>>, <<999, 500, 999>>}

\* toFixed(1): a score in tenths of a point
ToFixed1(score) == RoundDiv(score, ScoreUnit \div 10)

\* the inputs object built for the full risk analysis
fullAnalysisInputs(analysis, draws) ==
    LET f == analysis.features
    IN  [latency     |-> 200 + (draws[1] * 400) \div 1000,
         pauseStd    |-> OrDefault(Field(f, "pause_std", 0), 150),
         fillerCount |-> (draws[2] * 5) \div 1000,
         wpm         |-> OrDefault(Field(f, "tempo", 0), 120),
         pitchVar    |-> OrDefault(Field(f, "pitch_var", 0), 300),
         noiseDb     |-> OrDefault(Field(f, "noise_db", 0), -60),
         zcr         |-> OrDefault(Field(f, "zcr_mean", 0), 50),
         intent      |-> "medium"]

\* the analysis_result message; chunkNo is a history field: the position
\* of the chunk among the client messages of the connection
\* the security block of an analysis_result
securityBlock(riskScore, challenge) ==
    [challenge_required |-> riskScore > 40 * ScoreUnit,
     challenge |-> [type       |-> challenge.type,
                    script     |-> challenge.script,
                    difficulty |-> IF riskScore > 70 * ScoreUnit THEN "CRITICAL"
                                   ELSE IF riskScore > 40 * ScoreUnit THEN "HARD"
                                   ELSE "EASY"]]

analysisResult(n, chunkNo, analysis, riskScore, fullRiskAnalysis, challenge, alert, hist) ==
    LET art == analysis.artifacts.artifacts
    IN  [type           |-> "analysis_result",
         analysisNumber |-> n,
         chunkNo        |-> chunkNo,
         riskScores     |-> [simple_score        |-> ToFixed1(riskScore),
                             full_analysis_score |-> fullRiskAnalysis.score,
                             confidence          |-> fullRiskAnalysis.confidence,
                             verdict             |-> fullRiskAnalysis.action],
         artifacts      |-> [robotic_voice    |-> Field(art, "robotic_voice", FALSE),
                             background_noise |-> Field(art, "background_noise", FALSE),
                             clipping         |-> Field(art, "clipping", FALSE),
                             fake_audio       |-> Field(art, "fake_audio", FALSE),
                             echo             |-> Field(art, "echo", FALSE),
                             fraud_risk       |-> analysis.fraud_risk],
         security       |-> securityBlock(riskScore, challenge),
         monitoring     |-> [alert_triggered |-> alert.isAlert,
                             severity        |-> alert.severity,
                             trend           |-> alert.trend,
                             recent_scores   |-> [i \in 1..Len(SliceLast(hist, 5)) |->
                                                    ToFixed1(SliceLast(hist, 5)[i])]],
         recommendation |-> analysis.recommendation]

\* summary.average_risk_score, in tenths of a point
averageRiskScore(hist, count) ==
    IF count > 0
    THEN RoundDiv(SumSeq(SliceLast(hist, count)) * 10, Min(count, Len(hist)) * ScoreUnit)
    ELSE 0

\* summary.final_verdict: undefined > 70 is false
finalVerdict(hist) ==
    IF Len(hist) > 0 /\ hist[Len(hist)] > 70 * ScoreUnit THEN "BLOCK" ELSE "ALLOW"

sessionSummary(hist, count) ==
    [type    |-> "stream_complete",
     summary |-> [total_analyses     |-> count,
                  average_risk_score |-> averageRiskScore(hist, count),
                  trend              |-> calculateTrend(hist),
                  final_verdict      |-> finalVerdict(hist)]]

errorMessage(text) == [type |-> "error", message |-> text]

\* a failure that is logged but not reported to the client
sendErrorDropped(sent, text) == sent

\* ws.send(JSON.stringify({ type: 'error', sessionId, message }))
sendError(sent, text) == Append(sent, errorMessage(text))

Init ==
    /\ IdleMonitor
    /\ conn = [s \in Sessions |-> "none"]
    /\ analysisCount = [s \in Sessions |-> 0]
    /\ received = [s \in Sessions |-> <<>>]
    /\ outbox = [s \in Sessions |-> <<>>]
    /\ httpDone = 0
    /\ IdlePure

\* wss.on('connection'); connections are interchangeable, so they are
\* taken in a fixed order
Connect(s) ==
    /\ conn[s] = "none"
    /\ \A t \in Sessions : SessionOrder[t] < SessionOrder[s] => conn[t] = "open"
    /\ conn' = [conn EXCEPT ![s] = "open"]
    /\ analysisCount' = [analysisCount EXCEPT ![s] = 0]
    /\ outbox' = [outbox EXCEPT ![s] = Append(@, [type |-> "connected"])]
    /\ UNCHANGED <<monitorVars, received, httpDone, pureVars>>

RECURSIVE TotalReceived(_)
TotalReceived(S) ==
    IF S = {} THEN 0
    ELSE LET s == CHOOSE x \in S : TRUE
         IN  Len(received[s]) + TotalReceived(S \ {s})

CanHandle(s) == conn[s] = "open" /\ TotalReceived(Sessions) < MaxMsgs

\* the connection has received end_stream
Ended(s) == \E i \in 1..Len(received[s]) : received[s][i].type = "end_stream"

\* the count a failed analysis leaves behind when it is counted before the
\* if (analysis) test
countAfterFailureCounted(count) == count + 1

\* the count a failed analysis leaves behind
countAfterFailure(count) == count

\* ws.on('message') with a message of type audio_chunk
OnAudioChunk(s, chunk, draws) ==
    /\ CanHandle(s)
    /\ received' = [received EXCEPT ![s] =
          Append(@, [type |-> "audio_chunk", chunk |-> chunk])]
    /\ LET analysis == processAudio(chunk)
       IN  IF ~analysis.isNull
           THEN LET n          == analysisCount[s] + 1
                    riskScore  == calculateScore(analysis, draws[1])
                    inputs     == fullAnalysisInputs(analysis, draws)
                    fullRisk   == calculateRisk(inputs)
                    challenge  == generate(riskScore, draws[3])
                    r          == checkAlert(recentScores, riskScore)
                IN  /\ analysisCount' = [analysisCount EXCEPT ![s] = n]
                    /\ recentScores' = r.hist
                    /\ lastAlert' = Some(r.alert)
                    /\ pushed' = Append(pushed, [who |-> s, score |-> riskScore])
                    /\ outbox' = [outbox EXCEPT ![s] =
                          Append(@, analysisResult(n, Len(received[s]) + 1, analysis, riskScore,
                                                   fullRisk, challenge, r.alert, r.hist))]
           ELSE /\ analysisCount' = [analysisCount EXCEPT ![s] = countAfterFailure(@)]
                /\ outbox' = [outbox EXCEPT ![s] =
                      sendError(@, "Failed to analyze audio chunk")]
                /\ UNCHANGED monitorVars
    /\ UNCHANGED <<conn, httpDone, pureVars>>

\* ws.on('message') with a message of type end_stream
OnEndStream(s) ==
    /\ CanHandle(s)
    /\ received' = [received EXCEPT ![s] = Append(@, [type |-> "end_stream"])]
    /\ outbox' = [outbox EXCEPT ![s] =
          Append(@, sessionSummary(recentScores, analysisCount[s]))]
    /\ UNCHANGED <<monitorVars, conn, analysisCount, httpDone, pureVars>>

\* ws.on('message') with data that JSON.parse rejects, or an audio_chunk
\* whose data Buffer.from rejects: the catch block answers
OnUnparseable(s) ==
    /\ CanHandle(s)
    /\ received' = [received EXCEPT ![s] = Append(@, [type |-> "unparseable"])]
    /\ outbox' = [outbox EXCEPT ![s] = sendError(@, "error.message")]
    /\ UNCHANGED <<monitorVars, conn, analysisCount, httpDone, pureVars>>

\* ws.on('message') with a JSON object whose type is neither audio_chunk
\* nor end_stream: no branch is taken
OnUnknownType(s) ==
    /\ CanHandle(s)
    /\ received' = [received EXCEPT ![s] = Append(@, [type |-> "unknown"])]
    /\ UNCHANGED <<monitorVars, conn, analysisCount, outbox, httpDone, pureVars>>

\* seeds of uploaded files
FileSeeds == {90}

\* values of Date.now() % 50
TimeMods == {0, 49}

\* POST /analyze
HttpAnalyze(seed, timeMod) ==
    /\ httpDone < MaxHttp
    /\ httpDone' = httpDone + 1
    /\ LET result == calculateRisk(analyzeAudioFile(seed, timeMod))
           r      == checkAlert(recentScores, result.score)
       IN  /\ recentScores' = r.hist
           /\ lastAlert' = Some(r.alert)
           /\ pushed' = Append(pushed, [who |-> "http", score |-> result.score])
    /\ UNCHANGED <<conn, analysisCount, received, outbox, pureVars>>

\* POST /api/voice/analyze
HttpVoiceAnalyze(chunk) ==
    /\ httpDone < MaxHttp
    /\ httpDone' = httpDone + 1
    /\ LET analysis == processAudio(chunk)
       IN  IF ~analysis.isNull
           THEN LET riskScore == calculateScore(analysis, 0)
                    r         == checkAlert(recentScores, riskScore)
                IN  /\ recentScores' = r.hist
                    /\ lastAlert' = Some(r.alert)
                    /\ pushed' = Append(pushed, [who |-> "http", score |-> riskScore])
           ELSE UNCHANGED monitorVars
    /\ UNCHANGED <<conn, analysisCount, received, outbox, pureVars>>

\* POST /analyze-batch and POST /api/voice/batch: the files are scored and
\* the scores returned; riskMonitor is not touched
HttpBatch ==
    /\ httpDone < MaxHttp
    /\ httpDone' = httpDone + 1
    /\ UNCHANGED <<monitorVars, conn, analysisCount, received, outbox, pureVars>>

Next ==
    \/ \E s \in Sessions : Connect(s)
    \/ \E s \in Sessions, chunk \in Chunks, draws \in HandlerDraws : OnAudioChunk(s, chunk, draws)
    \/ \E s \in Sessions : OnEndStream(s)
    \/ \E s \in Sessions : OnUnparseable(s)
    \/ \E s \in Sessions : OnUnknownType(s)
    \/ \E seed \in FileSeeds, timeMod \in TimeMods : HttpAnalyze(seed, timeMod)
    \/ \E chunk \in Chunks : HttpVoiceAnalyze(chunk)
    \/ HttpBatch

Spec == Init /\ [][Next]_vars

-----------------------------------------------------------------------------
(* Properties of the streaming sessions *)

RECURSIVE OwnScoresOf(_, _)
OwnScoresOf(log, who) ==
    IF log = <<>> THEN <<>>
    ELSE IF Head(log).who = who
         THEN <<Head(log).score>> \o OwnScoresOf(Tail(log), who)
         ELSE OwnScoresOf(Tail(log), who)

\* the scores produced from the chunks of connection s, in order
OwnScores(s) == OwnScoresOf(pushed, s)

\* the history a monitor of its own would hold for connection s
PrivateHistory(s) == SliceLast(OwnScores(s), 10)

LastSent(s) == outbox[s][Len(outbox[s])]

\* positions of the messages of one type in the outbox of s
SentOfType(s, type) == {i \in 1..Len(outbox[s]) : outbox[s][i].type = type}

Handled(s, type) ==
    /\ Len(received'[s]) = Len(received[s]) + 1
    /\ received'[s][Len(received'[s])].type = type

AtMostOneStreamComplete ==
    \A s \in Sessions : Cardinality(SentOfType(s, "stream_complete")) <= 1

\* C6: the analysis_result messages of a session carry the numbers 1, 2,
\* 3, ... without gap or repetition, in the order their chunks arrived, and
\* the counter equals the number of results sent.
ResultsNumberedInArrivalOrder ==
    \A s \in Sessions :
        LET results == SentOfType(s, "analysis_result")
        IN  /\ \A i \in results :
                  /\ outbox[s][i].analysisNumber = Cardinality({j \in results : j <= i})
                  /\ outbox[s][i].chunkNo \in 1..Len(received[s])
                  /\ received[s][outbox[s][i].chunkNo].type = "audio_chunk"
            /\ \A i, j \in results :
                  i < j => outbox[s][i].chunkNo < outbox[s][j].chunkNo
            /\ analysisCount[s] = Cardinality(results)

\* a session got results 1 and 2 with a failed chunk between them
TwoResultsAroundFailure ==
    \E s \in Sessions :
        \E i, j, k \in 1..Len(outbox[s]) :
            /\ i < j /\ j < k
            /\ outbox[s][i].type = "analysis_result" /\ outbox[s][i].analysisNumber = 1
            /\ outbox[s][j].type = "error"
            /\ outbox[s][k].type = "analysis_result" /\ outbox[s][k].analysisNumber = 2

\* the mean of the scores to one decimal, in tenths; 0 for no score
MeanToOneDecimal(scores) ==
    IF Len(scores) = 0 THEN 0
    ELSE RoundDiv(SumSeq(scores) * 10, Len(scores) * ScoreUnit)

-----------------------------------------------------------------------------
(* The challenge of one chunk: generate(riskScore) and the security block  *)
(* the handler builds from the same riskScore.                             *)

\* every fifth point from 0 to 100, and the nearest scores around 40 and 70
ChallengeScores ==
    {5 * k * ScoreUnit : k \in 0..20}
    \cup {40 * ScoreUnit - 1, 40 * ScoreUnit + 1, 70 * ScoreUnit - 1, 70 * ScoreUnit + 1}

InitChallenge ==
    /\ IdleMonitor
    /\ IdleServer
    /\ arg \in [riskScore : ChallengeScores, rnd : RandomDraws]
    /\ res = NoValue

ApplyGenerate ==
    /\ res = NoValue
    /\ LET challenge == generate(arg.riskScore, arg.rnd)
       IN  res' = Some([challenge |-> challenge,
                        security  |-> securityBlock(arg.riskScore, challenge)])
    /\ UNCHANGED <<arg, monitorVars, serverVars>>

NextChallenge == ApplyGenerate

SpecChallenge == InitChallenge /\ [][NextChallenge]_vars

\* C15: the challenge type is CRITICAL_CONTEXT exactly when score > 70,
\* LINGUISTIC_TRAP exactly when 40 < score <= 70 and PREFERENCE otherwise,
\* whatever the random draw; and the security block agrees with it:
\* challenge_required iff the type is not PREFERENCE, and difficulty
\* CRITICAL/HARD/EASY for CRITICAL_CONTEXT/LINGUISTIC_TRAP/PREFERENCE.
ChallengeTierFromScore ==
    res # NoValue =>
        LET type == Val(res).challenge.type
            sec  == Val(res).security
        IN  /\ type = "CRITICAL_CONTEXT" <=> arg.riskScore > 70 * ScoreUnit
            /\ type = "LINGUISTIC_TRAP" <=>
                  (arg.riskScore > 40 * ScoreUnit /\ arg.riskScore <= 70 * ScoreUnit)
            /\ type = "PREFERENCE" <=> arg.riskScore <= 40 * ScoreUnit
            /\ \A r \in RandomDraws : generate(arg.riskScore, r).type = type
            /\ sec.challenge.type = type
            /\ sec.challenge_required <=> type # "PREFERENCE"
            /\ sec.challenge.difficulty =
                  IF type = "CRITICAL_CONTEXT" THEN "CRITICAL"
                  ELSE IF type = "LINGUISTIC_TRAP" THEN "HARD" ELSE "EASY"

\* a score exactly on the upper threshold: the middle tier, a challenge is
\* required, difficulty HARD
MiddleTierOnThreshold ==
    /\ res # NoValue
    /\ arg.riskScore = 70 * ScoreUnit
    /\ Val(res).challenge.type = "LINGUISTIC_TRAP"
    /\ Val(res).security.challenge_required
    /\ Val(res).security.challenge.difficulty = "HARD"

-----------------------------------------------------------------------------
(* The streaming pipeline on one chunk: processAudio on the extracted      *)
(* features, then calculateScore on the analysis.                          *)

\* (tempo, pitch_stability) of _estimatePitch for the fundamental
\* frequencies 100, 200, 320 and 400 Hz
PitchData == {<<150, 667>>, <<300, 1000>>, <<480, 625>>, <<600, 500>>}

PipelineFeatures ==
    {[duration |-> d, rms_mean |-> rm, rms_std |-> rs, rms_max |-> rx,
      zcr_mean |-> z, spec_centroid_mean |-> c, spec_rolloff_mean |-> r,
      mfcc_std |-> m, tempo |-> p[1], pitch_stability |-> p[2]] :
        d \in {500, 1000, 1001, 29999, 30000}, rm \in {50, 51, 150},
        rs \in {5, 50}, rx \in {400, 950},
        z \in {50, 150, 151, 499, 500, 700}, c \in {10, 62},
        r \in {30, 31, 50}, m \in {10, 200}, p \in PitchData}

InitPipeline ==
    /\ IdleMonitor
    /\ IdleServer
    /\ arg \in PipelineFeatures
    /\ res = NoValue

ApplyPipeline ==
    /\ res = NoValue
    /\ LET analysis == processAudio([features |-> Some(arg)])
       IN  res' = Some([analysis  |-> analysis,
                        riskScore |-> calculateScore(analysis, 0)])
    /\ UNCHANGED <<arg, monitorVars, serverVars>>

NextPipeline == ApplyPipeline

SpecPipeline == InitPipeline /\ [][NextPipeline]_vars

\* the five quality conditions that hold for a feature vector
QualityConditions(f) ==
    {c \in 1..5 :
        \/ c = 1 /\ f.rms_mean > 50
        \/ c = 2 /\ 150 < f.zcr_mean /\ f.zcr_mean < 500
        \/ c = 3 /\ f.spec_rolloff_mean > 30
        \/ c = 4 /\ f.pitch_stability > 500
        \/ c = 5 /\ 1000 < f.duration /\ f.duration < 30000}

\* C16: quality_score is 20 times the number of the five conditions that
\* hold (rms_mean > 0.05, 0.15 < zcr_mean < 0.5, spec_rolloff_mean > 0.3,
\* pitch_stability > 0.5, 1 < duration < 30), so it is a multiple of 20
\* between 0 and 100.
QualityScoreCountsConditions ==
    res # NoValue =>
        Val(res).analysis.quality.quality_score
            = 20 * Cardinality(QualityConditions(arg))

\* the penalties of the artifacts the detector flagged, in score units
FlaggedPenalty(flags) ==
    (IF flags.robotic_voice THEN 20 * ScoreUnit ELSE 0)
    + (IF flags.fake_audio THEN 25 * ScoreUnit ELSE 0)
    + (IF flags.clipping THEN 15 * ScoreUnit ELSE 0)
    + (IF flags.heavy_background THEN 10 * ScoreUnit ELSE 0)
    + (IF flags.echo_present THEN 8 * ScoreUnit ELSE 0)

\* C17: in processAudio followed by calculateScore every artifact the
\* detector flagged adds its penalty to the score before the clamp: robotic
\* voice 20, fake audio 25, clipping 15, background noise (ZCR > 0.6) 10,
\* echo (|centroid - rolloff| > 0.3) 8.
FlaggedArtifactsPenalised ==
    res # NoValue =>
        LET analysis == Val(res).analysis
            others   == scoreSum([analysis EXCEPT !.hasArtifacts = FALSE])
        IN  Val(res).riskScore
                = capScore(others + FlaggedPenalty(detectArtifacts(arg).artifacts))

-----------------------------------------------------------------------------
(* Decoding: parseWAV on a byte buffer, and whether processAudio gets a    *)
(* feature vector out of it.  A buffer is its kind (an ArrayBuffer, or a   *)
(* Node Buffer as the server passes) and its bytes.                        *)

\* longest buffer of arbitrary bytes tried
MaxBytes == 5

\* 0x64 0x61 0x74 0x61
DataTag == <<100, 97, 116, 97>>

ByteValues == {0, 97, 100, 116}

ByteSeqs(n) == UNION {[1..k -> ByteValues] : k \in 0..n}

\* arbitrary short buffers, and buffers holding the tag, four size bytes
\* and up to four payload bytes after at most one leading byte
BufferBytes ==
    ByteSeqs(MaxBytes)
    \cup {pre \o DataTag \o <<0, 0, 0, 0>> \o payload :
              pre \in ByteSeqs(1), payload \in ByteSeqs(4)}

Buffers == [kind : {"ArrayBuffer", "Buffer"}, bytes : BufferBytes]

\* view.getInt16(i, true) for the bytes lo, hi
Int16LE(lo, hi) ==
    LET u == lo + 256 * hi IN IF u >= 32768 THEN u - 65536 ELSE u

\* parseWAV: NoValue for null; the samples are in units of 1/32768
parseWAV(buffer) ==
    IF buffer.kind # "ArrayBuffer" THEN NoValue    \* new DataView throws
    ELSE LET b         == buffer.bytes
             n         == Len(b)
             found     == {i \in 0..(n - 5) : SubSeq(b, i + 1, i + 4) = DataTag}
             dataStart == IF found = {} THEN 0
                          ELSE (CHOOSE i \in found : \A j \in found : i <= j) + 8
             count     == IF dataStart < n - 1 THEN (n - dataStart) \div 2 ELSE 0
         IN  Some([k \in 1..count |->
                     Int16LE(b[dataStart + 2 * k - 1], b[dataStart + 2 * k])])

\* whether _simpleFFT runs through on an input of length n: the combine
\* loop reads odd[k] for every k < n / 2
RECURSIVE fftCompletes(_)
fftCompletes(n) ==
    IF n <= 2 THEN TRUE
    ELSE /\ fftCompletes((n + 1) \div 2)
         /\ fftCompletes(n \div 2)
         /\ n % 2 = 0

\* whether processAudio gets past parseWAV and extractFeatures
yieldsFeatures(buffer) ==
    LET audioData == parseWAV(buffer)
    IN  /\ audioData # NoValue
        /\ Len(Val(audioData)) > 0
        /\ fftCompletes(Min(2048, Len(Val(audioData))))

InitDecode ==
    /\ IdleMonitor
    /\ IdleServer
    /\ arg \in Buffers
    /\ res = NoValue

ApplyDecode ==
    /\ res = NoValue
    /\ res' = Some([audioData   |-> parseWAV(arg),
                    hasFeatures |-> yieldsFeatures(arg)])
    /\ UNCHANGED <<arg, monitorVars, serverVars>>

NextDecode == ApplyDecode

SpecDecode == InitDecode /\ [][NextDecode]_vars

\* the bytes hold the tag somewhere
HasDataTag(b) == \E i \in 1..(Len(b) - 3) : SubSeq(b, i, i + 3) = DataTag

\* C18: for a buffer that is empty or holds no 'data' tag, parseWAV gives
\* no samples and processAudio no feature vector; the bytes are not decoded
\* from offset 0 as PCM.
NoDecodeWithoutData ==
    (res # NoValue /\ (arg.bytes = <<>> \/ ~HasDataTag(arg.bytes))) =>
        /\ Val(res).audioData \in {NoValue, Some(<<>>)}
        /\ ~Val(res).hasFeatures

-----------------------------------------------------------------------------
(* Failures inside the message handler *)

\* C19: a chunk whose analysis fails is answered with an error and leaves
\* the analysis counters, the monitor history and the other connections
\* untouched; a chunk whose analysis succeeds is analysed and answered with
\* the next analysis_result, whatever failed before it on this or another
\* session.
ChunkFailureIsolated ==
    [][\A s \in Sessions :
          Handled(s, "audio_chunk") =>
              LET chunk == received'[s][Len(received'[s])].chunk
                  sent  == outbox'[s][Len(outbox'[s])]
              IN  /\ Len(outbox'[s]) = Len(outbox[s]) + 1
                  /\ SubSeq(outbox'[s], 1, Len(outbox[s])) = outbox[s]
                  /\ \A t \in Sessions \ {s} :
                        outbox'[t] = outbox[t] /\ analysisCount'[t] = analysisCount[t]
                  /\ conn' = conn
                  /\ IF processAudio(chunk).isNull
                     THEN /\ sent = errorMessage("Failed to analyze audio chunk")
                          /\ analysisCount'[s] = analysisCount[s]
                          /\ recentScores' = recentScores
                          /\ pushed' = pushed
                     ELSE /\ sent.type = "analysis_result"
                          /\ sent.analysisNumber = analysisCount[s] + 1
                          /\ analysisCount'[s] = analysisCount[s] + 1
                          /\ sent.riskScores.simple_score
                                = ToFixed1(calculateScore(processAudio(chunk), 0))
                          /\ Len(pushed') = Len(pushed) + 1]_vars

\* a session whose chunk failed got its next chunk analysed as number 1,
\* and another session got a result as well
ResultAfterFailure ==
    \E s, t \in Sessions :
        /\ s # t
        /\ \E j, k \in 1..Len(outbox[s]) :
              /\ j < k
              /\ outbox[s][j] = errorMessage("Failed to analyze audio chunk")
              /\ outbox[s][k].type = "analysis_result"
              /\ outbox[s][k].analysisNumber = 1
        /\ analysisCount[s] = 1
        /\ SentOfType(t, "analysis_result") # {}

\* C20: a client message that is not a well-formed audio_chunk or
\* end_stream envelope (unparseable, or with a missing or unknown type) is
\* answered with exactly one error message, changes no session state and
\* leaves the connection open.
MalformedMessageAnswered ==
    [][\A s \in Sessions :
          (Handled(s, "unparseable") \/ Handled(s, "unknown")) =>
              /\ Len(outbox'[s]) = Len(outbox[s]) + 1
              /\ SubSeq(outbox'[s], 1, Len(outbox[s])) = outbox[s]
              /\ outbox'[s][Len(outbox'[s])].type = "error"
              /\ analysisCount' = analysisCount
              /\ recentScores' = recentScores
              /\ pushed' = pushed
              /\ conn' = conn]_vars

-----------------------------------------------------------------------------
(* HTTP requests and the monitor *)

\* C21: an HTTP file-analysis request (POST /analyze, POST
\* /api/voice/analyze, or a batch request) leaves the risk monitor's history
\* exactly as it was before the request.
HttpLeavesHistory ==
    [][httpDone' # httpDone => recentScores' = recentScores]_vars

-----------------------------------------------------------------------------
(* Scores as functions of the chunk *)

-----------------------------------------------------------------------------
(* Feature extraction on a sample buffer.  Samples, RMS, ZCR, normalised   *)
(* magnitudes and mel bands are in thousandths, centroid and rolloff in    *)
(* hundredths of the sample rate, duration in ms; square roots and         *)
(* quotients are rounded to the unit.                                      *)

sampleRate == 16000
frameSize == 512

\* longest sample buffer tried
MaxSamples == 4

RECURSIVE ISqrtBetween(_, _, _)
ISqrtBetween(x, lo, hi) ==
    IF lo >= hi THEN lo
    ELSE LET mid == (lo + hi + 1) \div 2
         IN  IF mid * mid <= x THEN ISqrtBetween(x, mid, hi)
             ELSE ISqrtBetween(x, lo, mid - 1)

\* Math.sqrt, rounded down
ISqrt(x) == ISqrtBetween(x, 0, Min(x, 46340))

HasNaN(arr) == \E i \in 1..Len(arr) : IsNaN(arr[i])

RECURSIVE MaxSeq(_)
MaxSeq(arr) ==
    IF Len(arr) = 1 THEN arr[1] ELSE Max(arr[1], MaxSeq(Tail(arr)))

\* the frames audioData.slice(i, i + frameSize) for i = 0, frameSize, ...
RECURSIVE Frames(_)
Frames(audioData) ==
    IF Len(audioData) = 0 THEN <<>>
    ELSE IF Len(audioData) <= frameSize THEN <<audioData>>
    ELSE <<SubSeq(audioData, 1, frameSize)>>
         \o Frames(SubSeq(audioData, frameSize + 1, Len(audioData)))

_calculateRMS(audioData) ==
    LET frames == Frames(audioData)
    IN  [i \in 1..Len(frames) |->
           ISqrt(SumSeq([j \in 1..Len(frames[i]) |-> frames[i][j] * frames[i][j]])
                 \div Len(frames[i]))]

_calculateZCR(audioData) ==
    LET frames == Frames(audioData)
        crossings(frame) ==
            Cardinality({j \in 2..Len(frame) :
                            \/ frame[j] >= 0 /\ frame[j - 1] < 0
                            \/ frame[j] < 0 /\ frame[j - 1] >= 0})
    IN  [i \in 1..Len(frames) |-> (crossings(frames[i]) * 1000) \div Len(frames[i])]

\* arr.reduce(...) / arr.length: 0 / 0 and sums over a NaN are NaN
_mean(arr) ==
    IF Len(arr) = 0 \/ HasNaN(arr) THEN NaN ELSE SumSeq(arr) \div Len(arr)

_std(arr) ==
    LET mean == _mean(arr)
    IN  IF IsNaN(mean) THEN NaN
        ELSE ISqrt(SumSeq([i \in 1..Len(arr) |-> (arr[i] - mean) * (arr[i] - mean)])
                   \div Len(arr))

\* (cos, sin) of -2 * pi * k / N in thousandths, for the windows of 4 and 8
\* samples; longer windows lie beyond MaxSamples
Twiddle(k, N) ==
    CASE k = 0                 -> <<1000, 0>>
      [] k # 0 /\ 4 * k = N     -> <<0, -1000>>
      [] N = 8 /\ k = 1         -> <<707, -707>>
      [] N = 8 /\ k = 3         -> <<-707, -707>>

\* _simpleFFT: ok is FALSE when the combine loop reads odd[k] beyond the
\* end of odd and the property read on undefined throws; a complex number
\* is <<real, imag>>
RECURSIVE _simpleFFT(_)
_simpleFFT(input) ==
    LET N == Len(input)
    IN  IF N <= 1 THEN [ok |-> TRUE, out |-> [i \in 1..N |-> <<input[i], 0>>]]
        ELSE IF N = 2
        THEN [ok |-> TRUE, out |-> << <<input[1] + input[2], 0>>,
                                      <<input[1] - input[2], 0>> >>]
        ELSE LET half == (N + 1) \div 2      \* iterations k < N / 2
                 even == _simpleFFT([i \in 1..half |-> input[2 * i - 1]])
                 odd  == _simpleFFT([i \in 1..(N \div 2) |-> input[2 * i]])
             IN  IF ~even.ok \/ ~odd.ok \/ Len(odd.out) < half
                 THEN [ok |-> FALSE, out |-> <<>>]
                 ELSE LET rot(k) ==
                              LET w == Twiddle(k, N)
                                  o == odd.out[k + 1]
                              IN  <<(o[1] * w[1] - o[2] * w[2]) \div 1000,
                                    (o[1] * w[2] + o[2] * w[1]) \div 1000>>
                      IN  [ok  |-> TRUE,
                           out |-> [i \in 1..N |->
                                      IF i <= half
                                      THEN <<even.out[i][1] + rot(i - 1)[1],
                                             even.out[i][2] + rot(i - 1)[2]>>
                                      ELSE <<even.out[i - half][1] - rot(i - half - 1)[1],
                                             even.out[i - half][2] - rot(i - half - 1)[2]>>]]

\* _calculateMelBands on the normalised spectrum
_calculateMelBands(spectrum) ==
    LET bandSize == Len(spectrum) \div 13
    IN  [i \in 1..13 |->
           LET band == SubSeq(spectrum, (i - 1) * bandSize + 1, i * bandSize)
           IN  IF bandSize = 0 \/ HasNaN(band) THEN NaN
               ELSE SumSeq(band) \div bandSize]

\* the one element of a singleton set
TheOne(S) == CHOOSE x \in S : TRUE

\* centroid, rolloff and mel bands of the normalised spectrum
spectralOfNormalized(normalized) ==
    LET n   == Len(normalized)
        nan == HasNaN(normalized)
    IN  TheOne({
          LET weighted == IF nan THEN NaN
                          ELSE SumSeq([i \in 1..n |-> (i - 1) * normalized[i]])
              \* (weightedSum / totalMag) / sampleRate
              centroid == IF nan THEN NaN ELSE RoundDiv(weighted * 100, n * total)
              \* the first bin where energySum > totalEnergy * 0.95, or 0
              reached  == IF nan THEN {}
                          ELSE {i \in 1..n :
                                  SumSeq(SubSeq(normalized, 1, i)) * 100 > total * 95}
              rolloff  == IF reached = {} THEN 0
                          ELSE RoundDiv(((CHOOSE i \in reached :
                                            \A j \in reached : i <= j) - 1) * 100, n)
          IN  [ok |-> TRUE, centroid |-> centroid, rolloff |-> rolloff,
               mfcc |-> _mean(bands), mfcc_std |-> _std(bands)] :
          total \in {IF nan THEN NaN ELSE SumSeq(normalized)},
          bands \in {_calculateMelBands(normalized)}})

\* magnitude.map(m => m / maxMag): 0 / 0 is NaN
normalizeMagnitude(magnitude) ==
    TheOne({[i \in 1..Len(magnitude) |->
               IF maxMag = 0 THEN NaN ELSE (magnitude[i] * 1000) \div maxMag] :
            maxMag \in {MaxSeq(magnitude)}})

_calculateSpectral(audioData) ==
    TheOne({IF ~fft.ok THEN [ok |-> FALSE]
            ELSE TheOne({spectralOfNormalized(normalized) :
                   normalized \in
                     {normalizeMagnitude(magnitude) :
                        magnitude \in
                          {[i \in 1..Len(fft.out) |->
                              ISqrt(fft.out[i][1] * fft.out[i][1]
                                    + fft.out[i][2] * fft.out[i][2])]}}}) :
            fft \in {_simpleFFT(SubSeq(audioData, 1, Min(2048, Len(audioData))))}})

\* _estimatePitch: the loop keeps the first lag whose correlation exceeds
\* every earlier one and 0, and minLag when there is none
_estimatePitch(audioData) ==
    LET maxLag == sampleRate \div 80
        minLag == sampleRate \div 400
        corr(lag) == SumSeq([i \in 1..Max(Len(audioData) - lag, 0) |->
                               audioData[i] * audioData[i + lag]])
        best == {lag \in minLag..(maxLag - 1) :
                    /\ corr(lag) > 0
                    /\ \A l \in minLag..(maxLag - 1) :
                          corr(l) < corr(lag) \/ (corr(l) = corr(lag) /\ l >= lag)}
        pitchLag == IF best = {} THEN minLag ELSE CHOOSE lag \in best : TRUE
    IN  \* fundamentalFreq = sampleRate / pitchLag; tempo = 1.5 * fundamentalFreq;
        \* stability = 1 / (1 + |fundamentalFreq - 200| / 200)
        [tempo     |-> RoundDiv(3 * sampleRate, 2 * pitchLag),
         stability |-> RoundDiv(200 * pitchLag * 1000,
                                200 * pitchLag + Abs(sampleRate - 200 * pitchLag))]

\* extractFeatures: outcome "null" for an empty buffer, "throws" when the
\* transform throws, "features" otherwise.  spec_entropy, zcr_std and
\* loudness_variance, which nothing reads, are left out.
extractFeatures(audioData) ==
    IF Len(audioData) = 0 THEN [outcome |-> "null"]
    ELSE LET rmsValues    == _calculateRMS(audioData)
             zcr          == _calculateZCR(audioData)
             spectralData == _calculateSpectral(audioData)
             pitchData    == _estimatePitch(audioData)
         IN  IF ~spectralData.ok THEN [outcome |-> "throws"]
             ELSE [outcome  |-> "features",
                   features |->
                     [duration           |-> (Len(audioData) * 1000) \div sampleRate,
                      rms_mean           |-> _mean(rmsValues),
                      rms_std            |-> _std(rmsValues),
                      rms_max            |-> MaxSeq(rmsValues),
                      zcr_mean           |-> _mean(zcr),
                      spec_centroid_mean |-> spectralData.centroid,
                      spec_rolloff_mean  |-> spectralData.rolloff,
                      mfcc_mean          |-> spectralData.mfcc,
                      mfcc_std           |-> spectralData.mfcc_std,
                      tempo              |-> pitchData.tempo,
                      pitch_stability    |-> pitchData.stability]]

SampleLevels == {-500, 0, 500}

SampleBuffers == UNION {[1..n -> SampleLevels] : n \in 0..MaxSamples}

InitExtract ==
    /\ IdleMonitor
    /\ IdleServer
    /\ arg \in SampleBuffers
    /\ res = NoValue

\* extractFeatures, then the rest of processAudio and calculateScore
ApplyExtract ==
    /\ res = NoValue
    /\ LET extracted == extractFeatures(arg)
           analysis  == processAudio([features |->
                            IF extracted.outcome = "features"
                            THEN Some(extracted.features) ELSE NoValue])
       IN  res' = Some([extracted |-> extracted,
                        analysis  |-> analysis,
                        riskScore |-> IF analysis.isNull THEN NoValue
                                      ELSE Some(calculateScore(analysis, 0))])
    /\ UNCHANGED <<arg, monitorVars, serverVars>>

NextExtract == ApplyExtract

SpecExtract == InitExtract /\ [][NextExtract]_vars

IsSilence(audioData) ==
    Len(audioData) > 0 /\ \A i \in 1..Len(audioData) : audioData[i] = 0

PowerOfTwo(n) == \E k \in 0..11 : n = 2 ^ k

\* C23: an all-zero sample buffer (with a power-of-two window, as the
\* 2-second buffer has) goes through extractFeatures, analyzeQuality,
\* detectArtifacts, calculateFraudRisk and calculateScore without throwing,
\* yields rms_mean = 0 and has_voice = false, and neither the feature
\* vector nor the final score holds a NaN.
SilenceWithoutNaN ==
    (res # NoValue /\ IsSilence(arg) /\ PowerOfTwo(Min(2048, Len(arg)))) =>
        /\ Val(res).extracted.outcome = "features"
        /\ ~Val(res).analysis.isNull
        /\ Val(res).extracted.features.rms_mean = 0
        /\ ~Val(res).analysis.quality.has_voice
        /\ \A k \in DOMAIN Val(res).extracted.features :
              ~IsNaN(Val(res).extracted.features[k])
        /\ Val(res).riskScore # NoValue
        /\ ~IsNaN(Val(Val(res).riskScore))

\* the largest power of two that is at most n, for n >= 1
LargestPowerOfTwo(n) == CHOOSE q \in 1..n : PowerOfTwo(q) /\ 2 * q > n

\* C24: for a buffer of N samples, N < 2048 and N not a power of two, the
\* transform runs on a window truncated to the largest power of two <= N,
\* returns one bin per window sample, and feature extraction succeeds.
OddLengthWindowTruncated ==
    (res # NoValue /\ Len(arg) >= 1 /\ Len(arg) < 2048 /\ ~PowerOfTwo(Len(arg))) =>
        LET fft == _simpleFFT(SubSeq(arg, 1, Min(2048, Len(arg))))
        IN  /\ fft.ok
            /\ Len(fft.out) = LargestPowerOfTwo(Len(arg))
            /\ Val(res).extracted.outcome = "features"
            /\ ~Val(res).analysis.isNull

-----------------------------------------------------------------------------
(* The fraud-risk term of calculateScore *)

\* C25: for every supplied fraud_risk r in [0, 100], r = 100 included, the
\* sum before the clamp includes exactly 0.1 * r, so with the rest of the
\* analysis fixed the score does not decrease when fraud_risk grows.
FraudRiskTenthAdded ==
    (res # NoValue /\ arg.analysis \in ScoreAnalyses
       /\ arg.analysis.fraud_risk \in 0..100) =>
        LET a    == arg.analysis
            rest == scoreSum([a EXCEPT !.fraud_risk = 0])
        IN  /\ Val(res) = capScore(rest + a.fraud_risk * (ScoreUnit \div 10))
            /\ \A r \in FraudRisks \cap (a.fraud_risk..100) :
                  calculateScore([a EXCEPT !.fraud_risk = r], arg.rnd) >= Val(res)

-----------------------------------------------------------------------------
(* The liveness score of a chunk or file, from the inputs object: pauseStd *)
(* in thousandths, wpm and noiseDb whole; the score in score units         *)

\* three times the sum of the three terms, so that wpm / 1.5 stays whole
livenessTermsTimes3(inputs) ==
    3 * inputs.pauseStd * (ScoreUnit \div 10)
    + 2 * Min(inputs.wpm, 150) * ScoreUnit
    + 3 * Max(0, 100 - Abs(inputs.noiseDb + 30) * 2) * ScoreUnit

\* Math.min(100, a + b + c) / 3
livenessScore(inputs) ==
    Min(3 * 100 * ScoreUnit, livenessTermsTimes3(inputs)) \div 9

livenessIndicator(inputs) ==
    IF Min(3 * 100 * ScoreUnit, livenessTermsTimes3(inputs)) > 9 * 60 * ScoreUnit
    THEN "LIVE_SPEAKER" ELSE "SUSPICIOUS_SYNTHETIC"

LivenessInputs ==
    [pauseStd : {0, 50, 150, 400}, wpm : {0, 80, 120, 150, 230},
     noiseDb : {-70, -60, -30, -10, 0}]

InitLiveness ==
    /\ IdleMonitor
    /\ IdleServer
    /\ arg \in LivenessInputs
    /\ res = NoValue

ApplyLiveness ==
    /\ res = NoValue
    /\ res' = Some([score |-> livenessScore(arg), indicator |-> livenessIndicator(arg)])
    /\ UNCHANGED <<arg, monitorVars, serverVars>>

NextLiveness == ApplyLiveness

SpecLiveness == InitLiveness /\ [][NextLiveness]_vars

\* C26: the liveness score is the average of its three terms, pauseStd *
\* 100, min(wpm, 150) / 1.5 and max(0, 100 - |noiseDb + 30| * 2), for all
\* inputs, and the indicator is LIVE where that average is above 60.
LivenessIsAverage ==
    res # NoValue =>
        /\ Val(res).score = livenessTermsTimes3(arg) \div 9
        /\ Val(res).indicator = "LIVE_SPEAKER"
              <=> livenessTermsTimes3(arg) > 9 * 60 * ScoreUnit

\* C27: every audio_chunk message handled on an open session is answered
\* with exactly one server message, an analysis_result or an error, within
\* the handling of that message; none is dropped, none answered twice.
EachChunkAnsweredOnce ==
    [][\A s \in Sessions :
          Handled(s, "audio_chunk") =>
              /\ Len(outbox'[s]) = Len(outbox[s]) + 1
              /\ SubSeq(outbox'[s], 1, Len(outbox[s])) = outbox[s]
              /\ outbox'[s][Len(outbox'[s])].type \in {"analysis_result", "error"}]_vars

\* a session that sent three chunks and nothing else holds its greeting and
\* three answers, an error and a result among them
ThreeChunksThreeAnswers ==
    \E s \in Sessions :
        /\ Len(received[s]) = 3
        /\ \A i \in 1..3 : received[s][i].type = "audio_chunk"
        /\ Len(outbox[s]) = 4
        /\ SentOfType(s, "error") # {}
        /\ SentOfType(s, "analysis_result") # {}

-----------------------------------------------------------------------------
(* Fraud risk and recommendation *)

\* C29: the fraud risk lies in [50, 100]; the recommendation is ALLOW only
\* when it is exactly 50, that is when no penalty applies; and whenever
\* robotic_voice is flagged (rms_std < 0.01) the fraud risk is at least 95
\* and the recommendation is BLOCK_IMMEDIATE.
FraudRiskFloorAndRobotic ==
    res # NoValue =>
        LET a == Val(res).analysis
        IN  /\ a.fraud_risk >= 50 /\ a.fraud_risk <= 100
            /\ a.recommendation = "ALLOW" <=> a.fraud_risk = 50
            /\ a.recommendation = "ALLOW" =>
                  /\ a.quality.quality_score >= 40
                  /\ a.artifacts.artifact_count = 0
                  /\ arg.rms_std >= 10
                  /\ arg.tempo <= 300
            /\ a.artifacts.artifacts.robotic_voice <=> arg.rms_std < 10
            /\ arg.rms_std < 10 =>
                  a.fraud_risk >= 95 /\ a.recommendation = "BLOCK_IMMEDIATE"

\* a chunk flagged as robotic voice and nothing else: fraud risk 95, blocked
RoboticVoiceBlocked ==
    /\ res # NoValue
    /\ arg.rms_std < 10
    /\ Val(res).analysis.artifacts.artifact_count = 1
    /\ Val(res).analysis.fraud_risk = 95
    /\ Val(res).analysis.recommendation = "BLOCK_IMMEDIATE"

-----------------------------------------------------------------------------
(* The artifacts block of analysis_result *)

====
